---- MODULE Spec2Model ----
(***************************************************************************)
(* Model of src/uav_server.py: the UAVServer WebSocket server.             *)
(*                                                                         *)
(* The server is one asyncio event loop.  A coroutine runs without         *)
(* interruption from one suspension point to the next; the suspension      *)
(* points of the source are `async for message in websocket`               *)
(* (handle_client), `asyncio.sleep` and `asyncio.gather`                   *)
(* (telemetry_broadcaster / broadcast_to_all).  `subprocess.run` in        *)
(* execute_command is a blocking call made on the event-loop thread: while *)
(* it runs no other coroutine is scheduled.                                *)
(***************************************************************************)
EXTENDS Integers, Sequences, FiniteSets, TLC

\* ---------------------------------------------------------------- bounds
NumSessions == 2      \* connections the environment opens
MaxMsgs == 2          \* inbound messages over all sessions
MaxTicks == 2         \* iterations of the broadcaster loop

Sessions == 1..NumSessions

\* ------------------------------------------------------------ JSON values
\* A JSON value as handle_message sees it after json.loads.
JStr(s) == [t |-> "str", v |-> s]
JNull == [t |-> "null", v |-> ""]      \* Python None
JList == [t |-> "list", v |-> ""]      \* a JSON array (unhashable in Python)
JNum(n) == [t |-> "num", v |-> n]      \* a JSON number, by its digits

\* Python dicts are functions from keys to values.
EmptyDict == [k \in {} |-> JNull]
Single(k, val) == [x \in {k} |-> val]
\* {**a, **b}: the keys of b override those of a.
Merge(a, b) == [k \in (DOMAIN a) \cup (DOMAIN b) |-> IF k \in DOMAIN b THEN b[k] ELSE a[k]]
\* d.get(k, default)
Get(d, k, default) == IF k \in DOMAIN d THEN d[k] ELSE default

\* ------------------------------------------------------------ characters
Alnum == {"a","b","c","d","e","f","g","h","i","j","k","l","m","n","o","p","q","r","s","t","u","v","w","x","y","z",
          "A","B","C","D","E","F","G","H","I","J","K","L","M","N","O","P","Q","R","S","T","U","V","W","X","Y","Z",
          "0","1","2","3","4","5","6","7","8","9"}
\* A string is "clean" when it has only alphanumerics, dots and hyphens.
CleanTarget(chars) == \A i \in 1..Len(chars) : chars[i] \in Alnum \cup {".", "-"}

\* ------------------------------------------------------- allowed_commands
allowed_commands ==
  [k \in {"system_info", "disk_usage", "memory_info", "network_info", "processes",
          "uptime", "temperature", "gpio_status", "wifi_status", "ping_test",
          "reboot", "shutdown"} |->
     CASE k = "system_info"  -> <<"uname -a">>
       [] k = "disk_usage"   -> <<"df -h">>
       [] k = "memory_info"  -> <<"free -h">>
       [] k = "network_info" -> <<"ip addr show">>
       [] k = "processes"    -> <<"ps aux">>
       [] k = "uptime"       -> <<"uptime">>
       [] k = "temperature"  -> <<"sensors">>
       [] k = "gpio_status"  -> <<"gpio readall">>
       [] k = "wifi_status"  -> <<"iwconfig">>
       [] k = "ping_test"    -> <<"ping -c 4 8.8.8.8">>
       [] k = "reboot"       -> <<"sudo reboot">>
       [] k = "shutdown"     -> <<"sudo shutdown -h now">>]

\* ------------------------------------------------------- inbound messages
\* The value of 'params': a dict of parameters (values are strings, kept as
\* sequences of characters), or a non-empty JSON array.
NoParams == [k \in {} |-> <<>>]
PDict(d) == [t |-> "dict", d |-> d]
PList == [t |-> "list", d |-> NoParams]

GoodTarget == <<"h", "-", "1", ".", "x">>            \* h-1.x
InjectTarget == <<"x", ";", "i", "d">>               \* x;id
SubstTarget == <<"$", "(", "i", "d", ")">>           \* $(id)
Targets == {GoodTarget, InjectTarget, SubstTarget}

ParamValues == {PDict(Single("target", tg)) : tg \in Targets}
                 \cup {PDict(Single("count", <<"9">>)), PList}
CommandKeys == {JStr("uptime"), JStr("ping_test"), JStr("no_such_key"), JNum("7"), JList}
RequestIds == {JNull, JStr("r1")}

\* A field that may be absent from the message.
Opt(k, vals) == {EmptyDict} \cup {Single(k, val) : val \in vals}

\* What the client sent: text that is not JSON, a JSON array, or a JSON object.
BadJson == [kind |-> "badjson", d |-> EmptyDict]
JsonArray == [kind |-> "list", d |-> EmptyDict]
Object(d) == [kind |-> "dict", d |-> d]
NoMsg == [kind |-> "none", d |-> EmptyDict]

CommandMsgs ==
  {Object(Merge(Merge(Merge(Single("type", JStr("command")), c), p), r)) :
     c \in Opt("command", CommandKeys), p \in Opt("params", ParamValues),
     r \in Opt("request_id", RequestIds)}
OtherMsgs ==
  {Object(Single("type", JStr(ty))) : ty \in {"ping", "get_telemetry", "get_system_info", "bogus"}}
    \cup {Object(EmptyDict), BadJson, JsonArray}
Messages == CommandMsgs \cup OtherMsgs

\* The messages used where sessions and the broadcaster interleave: one of
\* each way handle_message can go.
CoreMessages ==
  {Object(Single("type", JStr("ping"))),
   Object(Single("type", JStr("bogus"))),
   BadJson,
   Object(Merge(Single("type", JStr("command")),
                Merge(Single("command", JStr("uptime")), Single("request_id", JStr("r1")))))}

\* What the host does when asked: psutil may raise, the process may exit with
\* any return code, outlive the timeout, or fail to start.
SnapshotOutcomes == {"ok", "raise"}
ProcessOutcomes == {"exit0", "exit1", "timeout", "oserror"}

\* ---------------------------------------------------------------- state
VARIABLES
  clients,      \* self.clients
  is_running,   \* self.is_running
  conn,         \* per session: the transport, "none" | "open" | "closed_ok" | "closed_error"
  hpc,          \* per session: where handle_client is
  outbox,       \* per session: the types of the messages written to its transport
  bpc,          \* where telemetry_broadcaster is
  snap,         \* self.clients.copy() of the broadcast in progress (or of the last one)
  pending,      \* the send_to_client tasks of asyncio.gather that have not run yet
  tickLog,      \* the outcome of every iteration of the broadcaster loop
  shell,        \* the commands handed to subprocess.run so far
  nrecv,        \* inbound messages received so far
  lastFrom,     \* the session of the message handled last
  lastReq,      \* the message handled last
  lastResp      \* the response written for it (EmptyDict while the command runs)

vars == <<clients, is_running, conn, hpc, outbox, bpc, snap, pending, tickLog,
          shell, nrecv, lastFrom, lastReq, lastResp>>

Init ==
  /\ clients = {}
  /\ is_running = TRUE
  /\ conn = [s \in Sessions |-> "none"]
  /\ hpc = [s \in Sessions |-> "new"]
  /\ outbox = [s \in Sessions |-> <<>>]
  /\ bpc = "top"
  /\ snap = {}
  /\ pending = {}
  /\ tickLog = <<>>
  /\ shell = {}
  /\ nrecv = 0
  /\ lastFrom = 0
  /\ lastReq = NoMsg
  /\ lastResp = EmptyDict

\* subprocess.run is running on the event-loop thread.
LoopBlocked == \E s \in Sessions : hpc[s] = "exec"

\* ------------------------------------------------------------- registry
\* self.clients.add(websocket)
\* Faulty variant: registering a member again drops it.
register_client_toggle(cl, s) == IF s \in cl THEN cl \ {s} ELSE cl \cup {s}
register_client(cl, s) == cl \cup {s}
\* self.clients.discard(websocket)
unregister_client(cl, s) == cl \ {s}

\* send_to_client: websocket.send writes the message when the transport is
\* open; on a closed transport it raises ConnectionClosed, which is caught and
\* answered by unregister_client.  The two operators give the two effects.
\* Faulty variant: the send is not awaited and nothing is written.
send_to_client_outbox_noawait(ob, cn, s, type) == ob
\* Faulty variant: the message is written to every open session.
send_to_client_outbox_everyone(ob, cn, s, type) ==
  [x \in Sessions |-> IF cn[x] = "open" THEN Append(ob[x], type) ELSE ob[x]]
send_to_client_outbox(ob, cn, s, type) ==
  IF cn[s] = "open" THEN [ob EXCEPT ![s] = Append(@, type)] ELSE ob
\* Faulty variant: ConnectionClosed is swallowed without unregister_client.
send_to_client_clients_keep(cl, cn, s) == cl
send_to_client_clients(cl, cn, s) ==
  IF cn[s] = "open" THEN cl ELSE unregister_client(cl, s)
\* Whether send_to_client raises to its caller: ConnectionClosed is caught at
\* line 85 and unregister_client (set.discard) does not raise.
\* Faulty variant: websocket.send is called without the try block.
send_to_client_raises_unguarded(cn, s) == cn[s] # "open"
send_to_client_raises(cn, s) == FALSE

\* ------------------------------------------------------ execute_command
\* `command_key not in self.allowed_commands` hashes the key: a JSON array
\* raises TypeError there, outside the try block.
KeyUnhashable(command_key) == command_key.t = "list"
KeyAllowed(command_key) == command_key.t = "str" /\ command_key.v \in DOMAIN allowed_commands

\* `if params`: an empty dict and None are false, a non-empty list is true.
Truthy(params) == IF params.t = "dict" THEN DOMAIN params.d # {} ELSE params.t = "list"

DefaultTarget == <<"8", ".", "8", ".", "8", ".", "8">>

\* Lines 127-132: the command text handed to the shell.  The text is a
\* sequence whose first element is the fixed part; the characters of the
\* target follow it.
ResolveCommand(command_key, params) ==
  IF Truthy(params) /\ command_key.v = "ping_test"
  THEN <<"ping -c 4 ">> \o Get(params.d, "target", DefaultTarget)
  ELSE allowed_commands[command_key.v]

\* params.get on a list raises AttributeError (caught at line 159).
ParamsRaise(command_key, params) ==
  Truthy(params) /\ command_key.v = "ping_test" /\ params.t # "dict"

\* Faulty variant: a run that outlives the timeout is reported like a run
\* that ended, with the return code of the kill.
ProcessResult_killed(command_key, outcome) ==
  CASE outcome = "exit0" ->
         [success |-> TRUE, command |-> command_key, output |-> "stdout",
          error |-> "stderr", return_code |-> 0, timestamp |-> "now"]
    [] outcome = "exit1" ->
         [success |-> TRUE, command |-> command_key, output |-> "stdout",
          error |-> "stderr", return_code |-> 1, timestamp |-> "now"]
    [] outcome = "timeout" ->
         [success |-> FALSE, command |-> command_key, output |-> "stdout",
          error |-> "timeout 30s", return_code |-> -9, timestamp |-> "now"]
    [] OTHER ->
         [success |-> FALSE, error |-> "str(e)", command |-> command_key]
\* Lines 136-165: the result for each way subprocess.run can end.
ProcessResult(command_key, outcome) ==
  CASE outcome = "exit0" ->
         [success |-> TRUE, command |-> command_key, output |-> "stdout",
          error |-> "stderr", return_code |-> 0, timestamp |-> "now"]
    [] outcome = "exit1" ->
         [success |-> TRUE, command |-> command_key, output |-> "stdout",
          error |-> "stderr", return_code |-> 1, timestamp |-> "now"]
    [] outcome = "timeout" ->
         [success |-> FALSE, error |-> "timeout 30s", command |-> command_key]
    [] OTHER ->
         [success |-> FALSE, error |-> "str(e)", command |-> command_key]

\* Faulty variant: the destructive commands are left out of the list.
UnknownCommandResult_partial ==
  [success |-> FALSE, error |-> "not allowed",
   available_commands |-> (DOMAIN allowed_commands) \ {"reboot", "shutdown"}]
UnknownCommandResult ==
  [success |-> FALSE, error |-> "not allowed", available_commands |-> DOMAIN allowed_commands]

\* raised: the call raises instead of returning; started: the command texts
\* handed to subprocess.run; result: the dict returned.
execute_command(command_key, params, outcome) ==
  IF KeyUnhashable(command_key)
  THEN [raised |-> TRUE, started |-> {}, result |-> EmptyDict]
  ELSE IF ~KeyAllowed(command_key)
  THEN [raised |-> FALSE, started |-> {}, result |-> UnknownCommandResult]
  ELSE IF ParamsRaise(command_key, params)
  THEN [raised |-> FALSE, started |-> {},
        result |-> [success |-> FALSE, error |-> "str(e)", command |-> command_key]]
  ELSE [raised |-> FALSE, started |-> {ResolveCommand(command_key, params)},
        result |-> ProcessResult(command_key, outcome)]

\* ------------------------------------------------------- handle_message
Telemetry ==
  [timestamp |-> "now", system_info |-> "info", network_stats |-> "stats",
   battery_info |-> "battery"]

ErrorMsg(text) == [type |-> "error", message |-> text]

\* Line 180: 'request_id': data.get('request_id')
\* Faulty variant: the correlation id is not read from the message.
EchoedRequestId_dropped(data) == JNull
EchoedRequestId(data) == Get(data, "request_id", JNull)

\* The response dict of handle_message and the commands it starts.
handle_message(message, snapshot, outcome) ==
  IF message.kind = "badjson"
  THEN [started |-> {}, resp |-> ErrorMsg("invalid json")]
  ELSE IF message.kind # "dict"
  THEN [started |-> {}, resp |-> ErrorMsg("str(e)")]
  ELSE
    LET data == message.d
        message_type == Get(data, "type", JNull)
    IN CASE message_type = JStr("command") ->
              LET command_key == Get(data, "command", JNull)
                  params == Get(data, "params", PDict(NoParams))
                  r == execute_command(command_key, params, outcome)
              IN IF r.raised
                 THEN [started |-> {}, resp |-> ErrorMsg("str(e)")]
                 ELSE [started |-> r.started,
                       resp |-> Merge([type |-> "command_result",
                                       request_id |-> EchoedRequestId(data)],
                                      r.result)]
         [] message_type = JStr("ping") ->
              [started |-> {}, resp |-> [type |-> "pong", timestamp |-> "now"]]
         [] message_type = JStr("get_telemetry") ->
              IF snapshot = "raise"
              THEN [started |-> {}, resp |-> ErrorMsg("str(e)")]
              ELSE [started |-> {}, resp |-> Merge([type |-> "telemetry"], Telemetry)]
         [] OTHER ->
              [started |-> {}, resp |-> ErrorMsg("unknown message type")]

\* --------------------------------------------------------- handle_client
\* Whether another task can run between self.clients.add (line 65) and the
\* write of the greeting (line 71): get_system_info awaits nothing and
\* websocket.send writes to the transport before it first suspends.
\* Faulty variant: the system information is awaited from another task.
greeting_suspends_yes == TRUE
greeting_suspends == FALSE

\* A connection is accepted and handle_client runs up to its first
\* suspension: register_client adds the session, computes get_system_info
\* (psutil may raise: the exception leaves handle_client, which has not yet
\* entered its try block) and writes the greeting.  `tr` is the state of the
\* transport when the greeting is written.  Sessions are opaque handles; they
\* are taken in order.
\* A send_to_client that raised would leave handle_client the same way.
\* Between self.clients.add and the write of the greeting there is no
\* suspension point (greeting_suspends): the step is one run of the loop.
Connect(s, info, tr) ==
  /\ is_running /\ ~LoopBlocked
  /\ hpc[s] \in {"new", "greet"}
  /\ \A t \in Sessions : t < s => hpc[t] # "new"
  /\ LET added == IF hpc[s] = "new" THEN register_client(clients, s) ELSE clients
     IN IF hpc[s] = "new" /\ greeting_suspends
        THEN /\ info = "ok" /\ tr = "open"
             /\ clients' = added
             /\ hpc' = [hpc EXCEPT ![s] = "greet"]
             /\ conn' = [conn EXCEPT ![s] = "open"]
             /\ outbox' = outbox
        ELSE IF info = "raise"
        THEN /\ tr = "open"
             /\ clients' = added
             /\ hpc' = [hpc EXCEPT ![s] = "failed"]
             \* the library closes the connection of a handler that raised
             /\ conn' = [conn EXCEPT ![s] = "closed_error"]
             /\ outbox' = outbox
        ELSE /\ conn' = [conn EXCEPT ![s] = tr]
             /\ clients' = send_to_client_clients(added, conn', s)
             /\ outbox' = send_to_client_outbox(outbox, conn', s, "connection_established")
             /\ hpc' = [hpc EXCEPT ![s] =
                         IF send_to_client_raises(conn', s) THEN "failed" ELSE "loop"]
  /\ UNCHANGED <<is_running, bpc, snap, pending, tickLog, shell, nrecv,
                 lastFrom, lastReq, lastResp>>

\* `async for` yields a message and handle_message runs: to its response, or
\* into subprocess.run, which blocks the event loop until the process ends.
HandleMessage(s, message, snapshot) ==
  /\ is_running /\ ~LoopBlocked
  /\ hpc[s] = "loop" /\ conn[s] = "open"
  /\ nrecv < MaxMsgs
  /\ nrecv' = nrecv + 1
  /\ lastFrom' = s
  /\ lastReq' = message
  /\ LET h == handle_message(message, snapshot, "exit0")
     IN IF h.started # {}
        THEN /\ shell' = shell \cup h.started
             /\ hpc' = [hpc EXCEPT ![s] = "exec"]
             /\ lastResp' = EmptyDict
             /\ UNCHANGED <<clients, outbox>>
        ELSE /\ outbox' = send_to_client_outbox(outbox, conn, s, h.resp.type)
             /\ clients' = send_to_client_clients(clients, conn, s)
             /\ lastResp' = h.resp
             /\ UNCHANGED <<shell, hpc>>
  /\ UNCHANGED <<is_running, conn, bpc, snap, pending, tickLog>>

\* subprocess.run returns or raises; execute_command returns its result and
\* handle_message writes the command_result.
SubprocessDone(s, outcome) ==
  /\ hpc[s] = "exec" /\ lastFrom = s
  /\ LET h == handle_message(lastReq, "ok", outcome)
     IN /\ outbox' = send_to_client_outbox(outbox, conn, s, h.resp.type)
        /\ clients' = send_to_client_clients(clients, conn, s)
        /\ lastResp' = h.resp
  /\ hpc' = [hpc EXCEPT ![s] = "loop"]
  /\ UNCHANGED <<is_running, conn, bpc, snap, pending, tickLog, shell, nrecv,
                 lastFrom, lastReq>>

\* The peer closes the connection (close frame: "closed_ok") or the
\* connection is lost ("closed_error").  The handler is suspended in
\* `async for` and has not run yet.
Disconnect(s, how) ==
  /\ is_running /\ ~LoopBlocked
  /\ hpc[s] = "loop" /\ conn[s] = "open"
  /\ conn' = [conn EXCEPT ![s] = how]
  /\ UNCHANGED <<clients, is_running, hpc, outbox, bpc, snap, pending, tickLog,
                 shell, nrecv, lastFrom, lastReq, lastResp>>

\* The handler resumes on a closed connection: `async for` ends or raises
\* ConnectionClosed, and the finally block unregisters the session.
HandlerExit(s) ==
  /\ is_running /\ ~LoopBlocked
  /\ hpc[s] = "loop" /\ conn[s] # "open"
  /\ clients' = unregister_client(clients, s)
  /\ hpc' = [hpc EXCEPT ![s] = "done"]
  /\ UNCHANGED <<is_running, conn, outbox, bpc, snap, pending, tickLog, shell,
                 nrecv, lastFrom, lastReq, lastResp>>

\* --------------------------------------------------- telemetry_broadcaster
\* Where the loop is after an iteration that sent nothing ("empty": line 259)
\* or raised ("failed": line 262): in asyncio.sleep, either way.
\* Faulty variant: the exception of a tick is not caught and ends the task.
after_tick_raise_ends(outcome) == IF outcome = "failed" THEN "stopped" ELSE "sleep"
\* Faulty variant: the loop runs only while there are clients.
after_tick_empty_ends(outcome) == IF outcome = "empty" THEN "stopped" ELSE "sleep"
after_tick(outcome) == "sleep"

\* One iteration of the loop up to its suspension: with an empty registry it
\* goes to sleep; otherwise get_telemetry_data is computed (psutil may raise:
\* logged, then sleep) and broadcast_to_all gathers one send_to_client per
\* member of self.clients.copy().
BroadcastTick(snapshot) ==
  /\ is_running /\ ~LoopBlocked
  /\ bpc = "top"
  /\ Len(tickLog) < MaxTicks
  /\ IF clients = {}
     THEN /\ snapshot = "ok"
          /\ tickLog' = Append(tickLog, "empty")
          /\ bpc' = after_tick("empty")
          /\ UNCHANGED <<snap, pending>>
     ELSE IF snapshot = "raise"
     THEN /\ tickLog' = Append(tickLog, "failed")
          /\ bpc' = after_tick("failed")
          /\ UNCHANGED <<snap, pending>>
     ELSE /\ tickLog' = Append(tickLog, "sent")
          /\ snap' = clients
          /\ pending' = clients
          /\ bpc' = "gather"
  /\ UNCHANGED <<clients, is_running, conn, hpc, outbox, shell, nrecv, lastFrom,
                 lastReq, lastResp>>

\* The gather holds one send_to_client task for each member of
\* self.clients.copy(); `pending` are the tasks that have not run yet.
\* Faulty variant: the sends iterate self.clients itself.
gathered_live(s) == s \in clients
gathered(s) == s \in pending

\* The tasks left once the task of s has run: with return_exceptions=True (and
\* ConnectionClosed caught in send_to_client) a failed send ends no other task.
\* Faulty variant: the first failed send abandons the rest of the broadcast.
gather_rest_abort(pend, cn, s) == IF cn[s] = "open" THEN pend \ {s} ELSE {}
gather_rest(pend, cn, s) == pend \ {s}

\* One send_to_client task of the gather runs; when the last one has run the
\* gather completes and the broadcaster goes to sleep.
BroadcastSend(s) ==
  /\ is_running /\ ~LoopBlocked
  /\ bpc = "gather" /\ gathered(s)
  /\ outbox' = send_to_client_outbox(outbox, conn, s, "telemetry_broadcast")
  /\ clients' = send_to_client_clients(clients, conn, s)
  /\ pending' = gather_rest(pending, conn, s)
  /\ bpc' = IF pending' = {} THEN "sleep" ELSE "gather"
  /\ UNCHANGED <<is_running, conn, hpc, snap, tickLog, shell, nrecv, lastFrom,
                 lastReq, lastResp>>

\* asyncio.sleep(self.telemetry_interval) is over.
BroadcastWake ==
  /\ is_running /\ ~LoopBlocked
  /\ bpc = "sleep"
  /\ bpc' = "top"
  /\ UNCHANGED <<clients, is_running, conn, hpc, outbox, snap, pending, tickLog,
                 shell, nrecv, lastFrom, lastReq, lastResp>>

\* --------------------------------------------------------------- shutdown
\* SIGINT or SIGTERM: signal_handler clears is_running and raises SystemExit
\* in the main thread.  Raised inside subprocess.run it unwinds the handler
\* that is executing the command, through its finally block.
Signal ==
  /\ is_running
  /\ is_running' = FALSE
  /\ clients' = {s \in clients : hpc[s] # "exec"}
  /\ hpc' = [s \in Sessions |-> IF hpc[s] = "exec" THEN "done" ELSE hpc[s]]
  /\ conn' = [s \in Sessions |-> IF hpc[s] = "exec" THEN "closed_error" ELSE conn[s]]
  /\ UNCHANGED <<outbox, bpc, snap, pending, tickLog, shell, nrecv, lastFrom,
                 lastReq, lastResp>>

\* asyncio.run then cancels every task that remains, in one run of the loop:
\* the broadcaster (with the sends it gathered) and every handler suspended in
\* its message loop, whose finally block unregisters its session.
CancelAll ==
  /\ ~is_running
  /\ bpc # "stopped"
  /\ bpc' = "stopped"
  /\ pending' = {}
  /\ clients' = {s \in clients : hpc[s] # "loop"}
  /\ hpc' = [s \in Sessions |-> IF hpc[s] = "loop" THEN "done" ELSE hpc[s]]
  /\ conn' = [s \in Sessions |-> IF conn[s] = "open" THEN "closed_ok" ELSE conn[s]]
  /\ UNCHANGED <<is_running, outbox, snap, tickLog, shell, nrecv, lastFrom,
                 lastReq, lastResp>>

NextOver(S, M) ==
  \/ \E s \in S, info \in SnapshotOutcomes, tr \in {"open", "closed_error"} :
       Connect(s, info, tr)
  \/ \E s \in S, message \in M, snapshot \in SnapshotOutcomes :
       HandleMessage(s, message, snapshot)
  \/ \E s \in S, outcome \in ProcessOutcomes : SubprocessDone(s, outcome)
  \/ \E s \in S, how \in {"closed_ok", "closed_error"} : Disconnect(s, how)
  \/ \E s \in S : HandlerExit(s)
  \/ \E snapshot \in SnapshotOutcomes : BroadcastTick(snapshot)
  \/ \E s \in S : BroadcastSend(s)
  \/ BroadcastWake
  \/ Signal
  \/ CancelAll

\* Every session, the broadcaster and shutdown interleaved.
Next == NextOver(Sessions, CoreMessages)
Spec == Init /\ [][Next]_vars

\* One session's handler alone, fed every inbound message of Messages: the
\* specification for what handle_message and execute_command answer.
WireNext ==
  \/ \E info \in SnapshotOutcomes, tr \in {"open", "closed_error"} : Connect(1, info, tr)
  \/ \E message \in Messages, snapshot \in SnapshotOutcomes :
       HandleMessage(1, message, snapshot)
  \/ \E outcome \in ProcessOutcomes : SubprocessDone(1, outcome)
  \/ \E how \in {"closed_ok", "closed_error"} : Disconnect(1, how)
  \/ HandlerExit(1)
WireSpec == Init /\ [][WireNext]_vars

\* The scheduling the event loop guarantees: a timer that is due fires, a task
\* that is ready runs, and subprocess.run returns (timeout=30).
Fairness ==
  /\ WF_vars(BroadcastWake)
  /\ WF_vars(\E snapshot \in SnapshotOutcomes : BroadcastTick(snapshot))
  /\ WF_vars(\E s \in Sessions : BroadcastSend(s))
  /\ WF_vars(\E s \in Sessions, outcome \in ProcessOutcomes : SubprocessDone(s, outcome))
FairSpec == Spec /\ Fairness

\* ================================================================ claims
Closed(s) == conn[s] \in {"closed_ok", "closed_error"}
TickBegins == Len(tickLog') = Len(tickLog) + 1

\* A session that was in its message loop when its connection closed.
Disconnected(s) == Closed(s) /\ hpc[s] \in {"loop", "done"}

\* C1 as stated: once a session has disconnected it is out of the registry at
\* the moment the next broadcast tick begins, i.e. no tick begins while a
\* disconnected session is a member of the registry.
C1_RegistryCleanAtTick ==
  [][TickBegins => \A s \in clients : ~Disconnected(s)]_vars

\* C1, amended: a disconnected session may still be registered when a tick
\* begins, but nothing is ever written to a session whose transport is closed;
\* the broadcast's send to it removes exactly that session from the registry;
\* and the handler's own cleanup leaves it out of the registry.
C1_ClosedSessionDropped ==
  [][\A s \in Sessions :
       /\ Closed(s) => outbox'[s] = outbox[s]
       /\ (Closed(s) /\ s \in pending /\ s \notin pending' /\ is_running')
            => (s \notin clients' /\ clients' = clients \ {s})
       /\ (hpc[s] = "loop" /\ hpc'[s] = "done") => s \notin clients']_vars

\* Two sessions were registered, one disconnected, and the broadcast that
\* found it still registered has removed it and reached only the other one.
C1_Witness ==
  \E s, t \in Sessions :
    /\ s # t /\ {s, t} \subseteq snap /\ pending = {}
    /\ Closed(s) /\ hpc[s] = "loop" /\ s \notin clients
    /\ outbox[s] = <<"connection_established">>
    /\ conn[t] = "open" /\ clients = {t}
    /\ outbox[t] = <<"connection_established", "telemetry_broadcast">>

\* ---- what the last exchange was
IsCommand(message) ==
  message.kind = "dict" /\ Get(message.d, "type", JNull) = JStr("command")
ReqKey == Get(lastReq.d, "command", JNull)
ReqParams == Get(lastReq.d, "params", PDict(NoParams))
\* The response of the last message has been written.
Answered == lastFrom # 0 /\ hpc[lastFrom] # "exec" /\ DOMAIN lastResp # {}
IsResult(resp) == "type" \in DOMAIN resp /\ resp.type = "command_result"
Failure(resp) == IsResult(resp) /\ "success" \in DOMAIN resp /\ resp.success = FALSE
\* The client supplied a ping_test target that is not made of alphanumerics,
\* dots and hyphens.
BadPingTarget ==
  /\ IsCommand(lastReq) /\ ReqKey = JStr("ping_test")
  /\ ReqParams.t = "dict" /\ "target" \in DOMAIN ReqParams.d
  /\ ~CleanTarget(ReqParams.d["target"])

\* C2 as stated: a ping_test whose target has a character other than
\* alphanumerics, dots and hyphens is answered with a failure result, and no
\* command handed to the shell ever carries such a target.
C2_TargetValidated ==
  /\ \A text \in shell : CleanTarget(Tail(text))
  /\ (BadPingTarget /\ lastFrom # 0) => (hpc[lastFrom] # "exec" /\ Failure(lastResp))

C5_RequestIdEchoed ==
  (Answered /\ IsCommand(lastReq) /\ IsResult(lastResp)) =>
    /\ "request_id" \in DOMAIN lastResp
    /\ lastResp.request_id = Get(lastReq.d, "request_id", JNull)

\* A command that timed out was answered with the request_id "r1" it came with.
C5_Witness ==
  /\ Answered /\ IsCommand(lastReq) /\ Failure(lastResp)
  /\ lastResp.error = "timeout 30s"
  /\ Get(lastReq.d, "request_id", JNull) = JStr("r1")
  /\ lastResp.request_id = JStr("r1")

\* The response type the interface table gives for a request type.
ExpectedType(message) ==
  LET ty == Get(message.d, "type", JNull)
  IN CASE ty = JStr("command") -> "command_result"
       [] ty = JStr("ping") -> "pong"
       [] ty = JStr("get_telemetry") -> "telemetry"
       [] ty = JStr("get_system_info") -> "system_info"
       [] OTHER -> "error"

\* C6 as stated: every well-formed inbound message gets exactly one response,
\* of the type its request type determines.
C6_ResponseTypeByRequest ==
  (Answered /\ lastReq.kind = "dict" /\ conn[lastFrom] = "open") =>
    /\ lastResp.type = ExpectedType(lastReq)
    /\ outbox[lastFrom][Len(outbox[lastFrom])] = lastResp.type
    /\ Len(outbox[lastFrom]) = 1 + nrecv

\* C8 as stated: an unknown key, an invalid parameter, a non-zero return code
\* and a timeout are each answered with a command_result that has
\* success=false, and the session's message loop goes on.
C8_CommandErrorsAreFailures ==
  (Answered /\ IsCommand(lastReq)) =>
    /\ ((~KeyUnhashable(ReqKey) /\ ~KeyAllowed(ReqKey)) => Failure(lastResp))
    /\ (BadPingTarget => Failure(lastResp))
    /\ (("return_code" \in DOMAIN lastResp /\ lastResp.return_code # 0) => Failure(lastResp))
    /\ (("error" \in DOMAIN lastResp /\ lastResp.error = "timeout 30s") => Failure(lastResp))
    /\ (conn[lastFrom] = "open" => hpc[lastFrom] = "loop")

Ping == Object(Single("type", JStr("ping")))

\* C3 as stated: while a session's command is executing, a broadcaster that is
\* due can take its step and every other session with an open connection can
\* have a message handled.
C3_CommandDoesNotBlock ==
  \A a \in Sessions : hpc[a] = "exec" =>
    /\ (bpc = "sleep" => ENABLED BroadcastWake)
    /\ (bpc = "top" /\ Len(tickLog) < MaxTicks => ENABLED BroadcastTick("ok"))
    /\ \A s \in pending : bpc = "gather" => ENABLED BroadcastSend(s)
    /\ \A b \in Sessions \ {a} :
         (hpc[b] = "loop" /\ conn[b] = "open" /\ nrecv < MaxMsgs)
           => ENABLED HandleMessage(b, Ping, "ok")

\* C9 as stated: a session whose handler has terminated, by any exit path, is
\* not in the registry.
C9_TerminatedHandlerUnregistered ==
  \A s \in Sessions : hpc[s] \in {"done", "failed"} => s \notin clients

\* C7: a tick that fails (the snapshot raises, or a send finds its connection
\* closed) leaves the broadcaster in its loop, asleep or still sending; the
\* broadcaster stops only at shutdown; and after a failed tick another tick
\* begins unless shutdown comes first.
C7_FailedTickKeepsLoop ==
  /\ [][/\ (TickBegins /\ tickLog'[Len(tickLog')] = "failed") => bpc' = "sleep"
        /\ (is_running' /\ \E s \in pending : Closed(s) /\ s \notin pending')
             => bpc' \in {"gather", "sleep"}
        /\ bpc' = "stopped" => ~is_running']_vars
  /\ \A n \in 1..(MaxTicks - 1) :
       (Len(tickLog) = n /\ tickLog[n] = "failed") ~> (Len(tickLog) > n \/ ~is_running)

\* A tick failed and the next tick has begun.
C7_Witness ==
  /\ is_running /\ Len(tickLog) >= 2
  /\ tickLog[Len(tickLog) - 1] = "failed"

\* C10: a tick on an empty registry writes nothing, changes nothing but the
\* broadcaster's own position, which is asleep; and the next tick begins
\* unless shutdown comes first.
C10_EmptyTickIsNoOp ==
  /\ [][(TickBegins /\ clients = {}) =>
          /\ outbox' = outbox /\ clients' = clients /\ pending' = pending
          /\ tickLog'[Len(tickLog')] = "empty"
          /\ bpc' = "sleep"]_vars
  /\ \A n \in 1..(MaxTicks - 1) :
       (Len(tickLog) = n /\ tickLog[n] = "empty") ~> (Len(tickLog) > n \/ ~is_running)

\* A tick found the registry empty and the next tick has begun.
C10_Witness ==
  /\ is_running /\ Len(tickLog) >= 2
  /\ tickLog[Len(tickLog) - 1] = "empty"

\* ---- broadcasts and sends
\* The step writes a telemetry_broadcast to session s.
Broadcasted(s) == outbox'[s] = Append(outbox[s], "telemetry_broadcast")
\* The step runs the gathered send_to_client task of session s.
SendRuns(s) == is_running' /\ s \in pending /\ s \notin pending'

\* C11: broadcast_to_all works on a copy of the registry taken when it is
\* invoked.  The copy and the send tasks are exactly the registry at that
\* moment; registering and unregistering never change the copy and never add
\* a task; the task of each member runs once (it writes the message once when
\* the transport is open); the broadcast is over only when every task has
\* run; and a telemetry_broadcast is written to a session only by its own
\* task, so a session registered after the invocation is not sent the message.
C11_BroadcastUsesSnapshot ==
  [][/\ (TickBegins /\ bpc' = "gather") => (snap' = clients /\ pending' = clients)
     /\ ~TickBegins => (snap' = snap /\ pending' \subseteq pending)
     /\ pending' \subseteq snap'
     /\ (bpc = "gather" /\ bpc' = "sleep") => pending' = {}
     /\ \A s \in Sessions :
          /\ (Len(outbox'[s]) > Len(outbox[s])
                /\ outbox'[s][Len(outbox'[s])] = "telemetry_broadcast")
               => (SendRuns(s) /\ s \in snap /\ Broadcasted(s))
          /\ SendRuns(s) =>
               IF conn[s] = "open" THEN Broadcasted(s) ELSE outbox'[s] = outbox[s]]_vars

\* A broadcast is in progress on a copy that held two sessions: one has been
\* sent the message once, the other was unregistered by its own handler after
\* the copy was taken and its task is still to run.
C11_Witness ==
  \E s, t \in Sessions :
    /\ s # t /\ bpc = "gather" /\ snap = {s, t} /\ pending = {s}
    /\ hpc[s] = "done" /\ s \notin clients
    /\ outbox[t] = <<"connection_established", "telemetry_broadcast">>

\* The step is a registration whose greeting found the transport closed:
\* the handler has left "new" and its session is not in the registry (a
\* get_system_info that raises leaves it in).
GreetingOnClosed(s) == hpc[s] = "new" /\ hpc'[s] # "new" /\ s \notin clients'

\* C12: send_to_client on a session whose transport is closed does not raise
\* to its caller: it writes nothing, removes that session from the registry
\* and returns.  The broadcast whose send it was stays in its gather or goes
\* to sleep, with no handler disturbed; the handler whose greeting it was goes
\* on to its message loop.
C12_ClosedSendReturns ==
  [][\A s \in Sessions :
       /\ (SendRuns(s) /\ Closed(s)) =>
            /\ s \notin clients' /\ outbox' = outbox
            /\ bpc' \in {"gather", "sleep"} /\ hpc' = hpc
       /\ GreetingOnClosed(s) =>
            /\ conn'[s] # "open" /\ outbox' = outbox
            /\ hpc'[s] = "loop"]_vars

\* A greeting found its transport closed: nothing was written, the session is
\* out of the registry and its handler is in its message loop.
C12_Witness ==
  \E s \in Sessions :
    /\ hpc[s] = "loop" /\ conn[s] = "closed_error"
    /\ outbox[s] = <<>> /\ s \notin clients

\* C13: a send that fails on session S during a broadcast removes S and only S
\* from the registry; the copy and the tick are the same; the send of every
\* other member of the copy that had not run is still to run, and it does run
\* (unless shutdown comes first); the broadcaster is in its gather, or asleep
\* when S was the last.
C13_FailedSendIsLocal ==
  /\ [][\A s \in Sessions : (SendRuns(s) /\ Closed(s)) =>
          /\ clients' = clients \ {s}
          /\ pending' = pending \ {s}
          /\ snap' = snap /\ tickLog' = tickLog
          /\ outbox' = outbox
          /\ bpc' = IF pending' = {} THEN "sleep" ELSE "gather"]_vars
  /\ \A t \in Sessions :
       (bpc = "gather" /\ t \in pending) ~> (t \notin pending \/ ~is_running)

\* A broadcast on a copy of two sessions: the send to the one whose transport
\* is closed has run and removed it (its handler has not resumed), and the
\* send to the other, still registered and open, is still to run.
C13_Witness ==
  \E s, t \in Sessions :
    /\ s # t /\ bpc = "gather" /\ snap = {s, t} /\ pending = {t}
    /\ Closed(s) /\ hpc[s] = "loop" /\ clients = {t}
    /\ conn[t] = "open" /\ ENABLED BroadcastSend(t)

\* ---- one session's message loop
\* The step receives an inbound message of session s.
Received(s) == nrecv' = nrecv + 1 /\ lastFrom' = s
\* Text that is not JSON, or an object whose 'type' no interface names.
Rejected(message) ==
  \/ message.kind = "badjson"
  \/ /\ message.kind = "dict"
     /\ Get(message.d, "type", JNull) \notin
          {JStr("command"), JStr("ping"), JStr("get_telemetry"), JStr("get_system_info")}

\* C14: a malformed payload or a message of an unrecognized type is answered
\* in the same step with one 'error' message, written to the sending session
\* and to no other; the registry is unchanged and holds the sender; nothing is
\* handed to the shell; and the sender's handler is in its message loop with
\* its connection open, ready for the next inbound message.
C14_BadMessageAnsweredLocally ==
  [][\A s \in Sessions : (Received(s) /\ Rejected(lastReq')) =>
       /\ lastResp'.type = "error"
       /\ outbox'[s] = Append(outbox[s], "error")
       /\ \A t \in Sessions \ {s} : outbox'[t] = outbox[t]
       /\ clients' = clients /\ s \in clients'
       /\ shell' = shell
       /\ hpc'[s] = "loop" /\ conn'[s] = "open"]_vars

\* With another session connected, a session sent text that is not JSON and
\* then a ping: it got an error, then a pong, and the other session nothing.
C14_Witness ==
  \E s, t \in Sessions :
    /\ s # t
    /\ outbox[s] = <<"connection_established", "error", "pong">>
    /\ lastFrom = s /\ lastReq = Ping
    /\ conn[t] = "open" /\ outbox[t] = <<"connection_established">>
    /\ clients = {s, t}

\* ---- the end of a call of execute_command
\* The result reports a run cut off by the timeout.
TimedOut(resp) == "error" \in DOMAIN resp /\ resp.error = "timeout 30s"
\* What the timeout result must look like: a failure that echoes the command
\* key and has no return code.
TimeoutShape(resp) ==
  /\ Failure(resp)
  /\ "command" \in DOMAIN resp /\ resp.command = ReqKey
  /\ "return_code" \notin DOMAIN resp
\* A command that is running can always end by the timeout.
RunCanTimeOut == \A s \in Sessions : hpc[s] = "exec" => ENABLED SubprocessDone(s, "timeout")

ShutdownDone == ~is_running /\ bpc = "stopped"

\* C16 as stated, its last part: once shutdown has run its course every
\* session is closed and the registry is empty.
C16_ShutdownEmptiesRegistry ==
  ShutdownDone => (clients = {} /\ \A s \in Sessions : conn[s] # "open")

\* The first parts of C16: after the signal no tick begins, no inbound
\* message is received and nothing is written to any session.
C16_NoWorkAfterSignal ==
  [][~is_running => (~TickBegins /\ nrecv' = nrecv /\ outbox' = outbox)]_vars

\* What shutdown does leave behind: every session is closed, and the registry
\* holds only sessions whose handler failed while registering.
C16_OnlyFailedRegistrationsRemain ==
  ShutdownDone =>
    /\ \A s \in Sessions : conn[s] # "open"
    /\ \A s \in clients : hpc[s] = "failed"

\* ---- the registry as a set
\* C17: registry add and remove are idempotent.  On every registry the
\* program reaches and for every session: adding a member, and removing a
\* non-member, give the same registry; adding or removing twice is the same
\* as once; after an add the session is a member and after a remove it is
\* not.  Where the program itself unregisters a session that is already out
\* (the handler's cleanup after a failed send removed it, or a failed send
\* after the handler's cleanup), the registry is unchanged and the step ends
\* as usual.
C17_RegistryIdempotent ==
  /\ [](\A s \in Sessions :
          /\ s \in clients => register_client(clients, s) = clients
          /\ s \notin clients => unregister_client(clients, s) = clients
          /\ register_client(register_client(clients, s), s) = register_client(clients, s)
          /\ unregister_client(unregister_client(clients, s), s) = unregister_client(clients, s)
          /\ s \in register_client(clients, s)
          /\ s \notin unregister_client(clients, s)
          /\ register_client(clients, s) \ {s} = clients \ {s}
          /\ unregister_client(clients, s) \cup {s} = clients \cup {s})
  /\ [][\A s \in Sessions :
          /\ (is_running' /\ hpc[s] = "loop" /\ hpc'[s] = "done" /\ s \notin clients)
               => clients' = clients
          /\ (SendRuns(s) /\ Closed(s) /\ s \notin clients)
               => (clients' = clients /\ bpc' \in {"gather", "sleep"})]_vars

\* A session whose greeting found the transport closed was unregistered by
\* send_to_client and then again by its handler's cleanup, while another
\* session stayed registered.
C17_Witness ==
  \E s, t \in Sessions :
    /\ s # t /\ is_running
    /\ hpc[s] = "done" /\ outbox[s] = <<>>
    /\ clients = {t} /\ hpc[t] = "loop"

\* ---- the greeting
\* The number of connection_established messages written to session s.
Greetings(s) ==
  Cardinality({i \in 1..Len(outbox[s]) : outbox[s][i] = "connection_established"})
\* The greeting was sent on a transport that had already closed: the send was
\* made, nothing was written, and the handler went on.
GreetingLost(s) == hpc[s] # "failed" /\ Closed(s) /\ outbox[s] = <<>>

\* C18 as stated: for every connection that handle_client has taken up,
\* exactly one connection_established is sent (written first, or sent into a
\* transport that had closed), and it is the first message of the session.
C18_OneGreetingPerConnection ==
  \A s \in Sessions : hpc[s] # "new" =>
    \/ Greetings(s) = 1 /\ outbox[s][1] = "connection_established"
    \/ GreetingLost(s)

\* The order C18 states, where a greeting is sent: it is written in the step
\* that adds the session, as the session's first message, with the session in
\* the registry; no connection gets a second one; and a session's inbound
\* message is received only after its greeting was written.
C18_GreetingOrder ==
  [][\A s \in Sessions :
       /\ (Len(outbox'[s]) > Len(outbox[s])
             /\ outbox'[s][Len(outbox'[s])] = "connection_established")
            => (hpc[s] = "new" /\ outbox[s] = <<>> /\ s \in clients' /\ hpc'[s] = "loop")
       /\ Received(s) => (Greetings(s) = 1 /\ outbox[s][1] = "connection_established")]_vars

\* ---- requests and responses of one session
\* The number of responses written to session s.
Responses(s) ==
  Cardinality({i \in 1..Len(outbox[s]) :
                 outbox[s][i] \notin {"connection_established", "telemetry_broadcast"}})
InProgress == {s \in Sessions : hpc[s] = "exec"}
RECURSIVE SumResponses(_)
SumResponses(S) ==
  IF S = {} THEN 0
  ELSE LET s == CHOOSE x \in S : TRUE IN Responses(s) + SumResponses(S \ {s})

\* C19: within one session at most one inbound message is being processed at
\* any time and the response to a message is written before the next message
\* of the session is received.  A message is received only by a handler that
\* is in its loop with nothing in progress; its response is written to its
\* own session in the same step, or (a command that runs) in the step that
\* ends the run, with no message of any session received in between; and
\* until shutdown every message received has its response written or is the
\* one in progress.
C19_OneAtATimeInOrder ==
  /\ [](is_running => (/\ Cardinality(InProgress) <= 1
                       /\ SumResponses(Sessions) + Cardinality(InProgress) = nrecv))
  /\ [][\A s \in Sessions :
          /\ Received(s) =>
               /\ hpc[s] = "loop" /\ InProgress = {}
               /\ \/ /\ hpc'[s] = "exec" /\ outbox' = outbox
                     /\ lastResp' = EmptyDict
                  \/ /\ hpc'[s] = "loop"
                     /\ outbox' = [outbox EXCEPT ![s] = Append(@, lastResp'.type)]
          /\ hpc[s] = "exec" => (nrecv' = nrecv /\ lastFrom' = s /\ lastReq' = lastReq)
          /\ (hpc[s] = "exec" /\ hpc'[s] = "loop") =>
               /\ outbox' = [outbox EXCEPT ![s] = Append(@, "command_result")]
               /\ lastResp'.type = "command_result"]_vars

\* A session sent a command and then a ping and got the command_result and
\* then the pong, while another session was being sent a broadcast.
C19_Witness ==
  \E s, t \in Sessions :
    /\ s # t
    /\ outbox[s] = <<"connection_established", "command_result", "pong">>
    /\ outbox[t] = <<"connection_established", "telemetry_broadcast">>
    /\ lastFrom = s /\ nrecv = 2

\* C20: no session is sent a telemetry_broadcast before its
\* connection_established: every telemetry_broadcast written to a session
\* comes after the greeting, which is the session's first message, and every
\* open session that a broadcast in progress is still to send to has been
\* greeted, whenever its registration fell among the broadcaster's steps.
C20_GreetingBeforeBroadcast ==
  \A s \in Sessions :
    /\ \A i \in 1..Len(outbox[s]) :
         outbox[s][i] = "telemetry_broadcast" =>
           (i > 1 /\ outbox[s][1] = "connection_established")
    /\ (s \in pending /\ conn[s] = "open") => Greetings(s) = 1

\* Two ticks: a session registered after the first tick took its copy was
\* sent its greeting and then the second broadcast only; the session that was
\* there from the start was sent both.
C20_Witness ==
  \E s, t \in Sessions :
    /\ s # t /\ tickLog = <<"sent", "sent">> /\ pending = {}
    /\ outbox[s] = <<"connection_established", "telemetry_broadcast", "telemetry_broadcast">>
    /\ outbox[t] = <<"connection_established", "telemetry_broadcast">>

====
